---- MODULE Spec2Model ----
(***************************************************************************)
(* fetch_keys.py: fetch the public ssh keys of the members of a github     *)
(* organization (or of one of its teams) and print them, or write them to  *)
(* a file of mode 0600.                                                    *)
(*                                                                         *)
(* The model is the body of main() after the virtualenv bootstrap          *)
(* (fetch_keys.py lines 93-141): the helper get(), the team resolution,    *)
(* the key loop and the two ways of emitting the keys.  The github API and *)
(* the file system are the environment: every response is drawn when the   *)
(* request is made, and a successful response is remembered in `remote`    *)
(* so that the same request gets the same answer again.                    *)
(*                                                                         *)
(* Text (standard output, file content) is a sequence of tokens: the       *)
(* strings the program formats, and LineSep between lines.  A uri is the   *)
(* tuple of its path segments.  A permission mode is the set of its bits.  *)
(***************************************************************************)
EXTENDS Naturals, Sequences, FiniteSets

VARIABLES
  args,        \* the parsed command line: t, f, organization, team
  pc,          \* where main() is
  exitCode,    \* the exit status, once pc = "done"
  resp,        \* the response get() received last
  teams,       \* main's teams
  team,        \* main's team: <<>> for None, <<t>> for the team t
  members,     \* main's members
  idx,         \* how many users the loop `for user in members` has finished
  lines,       \* main's lines
  linePos,     \* how many lines the loop `for line in lines` has written
  requests,    \* the requests sent in this run, in order
  stdout,      \* the text printed in this run
  temp,        \* the file at tempname
  dest,        \* the file at args.f
  remote,      \* what github has answered so far, by uri
  run,         \* the number of this run of the program
  destAtStart  \* the file at args.f when this run started

vars == <<args, pc, exitCode, resp, teams, team, members, idx, lines, linePos,
          requests, stdout, temp, dest, remote, run, destAtStart>>

----------------------------------------------------------------------------
\* Bounds of the model.

MaxTeams == 2
MaxMembers == 2
MaxKeys == 2
MaxRuns == 2

----------------------------------------------------------------------------
\* The values the command line and the environment are drawn from.

None == "<None>"
Organization == "acme"
Tokens == {"s3cr3t"}
DestPath == "authorized_keys"
Logins == {"alice", "bob"}
KeyTexts == {"ssh-rsa AAAA", "ssh-ed25519 BBBB"}
TeamArgs == {"dev", "Ops"}
TeamPool ==
  { [slug |-> "DEV", name |-> "Dev", id |-> 101],
    [slug |-> "ops", name |-> "Ops", id |-> 102],
    [slug |-> "Ops", name |-> "dev", id |-> 103] }

LineSep == "\n"

SeqsUpTo(S, n) == UNION { [1..k -> S] : k \in 0..n }

Distinct(s) == \A i, j \in 1..Len(s) : i # j => s[i] # s[j]

EmptyBody == [x \in {} |-> x]

\* The permission bits of the stat module, and what a umask of 022 or 077
\* leaves of the 0666 that open(..., 'w') asks for.
OwnerBits == {"S_IRUSR", "S_IWUSR"}
CreateModes == { OwnerBits, OwnerBits \cup {"S_IRGRP", "S_IROTH"} }

NoFile == [exists |-> FALSE, content |-> <<>>, mode |-> {}]
PriorFiles ==
  { NoFile,
    [exists |-> TRUE, content |-> <<"ssh-rsa OLD", LineSep>>,
     mode |-> OwnerBits \cup {"S_IRGRP", "S_IROTH"}] }

----------------------------------------------------------------------------
\* The github API: uris, and the responses a request can get.

\* "%s" % team['id']: the decimal text of the id.
Str(n) == CASE n = 101 -> "101" [] n = 102 -> "102" [] n = 103 -> "103"

TeamsUri(org) == <<"orgs", org, "teams">>
OrgMembersUri(org) == <<"orgs", org, "members">>
TeamMembersUri(id) == <<"teams", Str(id), "members">>
KeysUri(username) == <<"users", username, "keys">>

AllUris ==
  {TeamsUri(Organization), OrgMembersUri(Organization)}
    \cup {TeamMembersUri(t.id) : t \in TeamPool}
    \cup {KeysUri(l) : l \in Logins}

TeamLists == {s \in SeqsUpTo(TeamPool, MaxTeams) : Distinct(s)}
MemberLists ==
  {s \in SeqsUpTo({[login |-> l] : l \in Logins}, MaxMembers) : Distinct(s)}
KeyLists == SeqsUpTo({[key |-> k] : k \in KeyTexts}, MaxKeys)

\* The json body of an error response: any of message and documentation_url.
ErrorBodies ==
  { EmptyBody,
    [message |-> "Not Found"],
    [documentation_url |-> "https://developer.github.com/v3"],
    [message |-> "Not Found",
     documentation_url |-> "https://developer.github.com/v3"] }

\* What github can answer on uri: the array it answered before, or any array;
\* an error status with a json body; or no usable response at all
\* (requests.get or resp.json raises).
OkData(uri, known) ==
  IF Len(known[uri]) > 0 THEN {known[uri][1]}
  ELSE IF uri[3] = "teams" THEN TeamLists
  ELSE IF uri[3] = "members" THEN MemberLists
  ELSE KeyLists

Responses(uri, known) ==
  {[kind |-> "http", ok |-> TRUE, data |-> d] : d \in OkData(uri, known)}
    \cup {[kind |-> "http", ok |-> FALSE, data |-> b] : b \in ErrorBodies}
    \cup {[kind |-> "exception", ok |-> FALSE, data |-> EmptyBody]}

NoResponse == [kind |-> "none", ok |-> TRUE, data |-> EmptyBody]

----------------------------------------------------------------------------
\* Text.

\* print(text): the text and a line separator.
Printed(text) == text \o <<LineSep>>

\* os.linesep.join(lines)
RECURSIVE Join(_)
Join(ls) ==
  IF Len(ls) = 0 THEN <<>>
  ELSE IF Len(ls) = 1 THEN <<ls[1]>>
  ELSE <<ls[1], LineSep>> \o Join(Tail(ls))

\* The text of a key file: every key followed by a line separator.
RECURSIVE FileText(_)
FileText(ls) ==
  IF Len(ls) = 0 THEN <<>> ELSE <<ls[1], LineSep>> \o FileText(Tail(ls))

----------------------------------------------------------------------------
\* get(uri)

\* Headers without the test of line 97: a header for no token too.
HeadersAlways(t) == [Authorization |-> <<"token ", t>>]

\* lines 96-98: the headers of a request.
Headers(t) ==
  IF t # None THEN [Authorization |-> <<"token ", t>>] ELSE EmptyBody

\* lines 99-100: the request sent.
Request(uri) == [uri |-> uri, headers |-> Headers(args.t)]

\* ErrorOutput with the second test as an elif of the first.
ErrorOutputElif(data) ==
  IF "message" \in DOMAIN data THEN Printed(<<data["message"]>>)
  ELSE IF "documentation_url" \in DOMAIN data
       THEN Printed(<<data["documentation_url"]>>) ELSE <<>>

\* lines 102-106: what get prints of the body of a response that is not ok.
ErrorOutput(data) ==
  (IF "message" \in DOMAIN data THEN Printed(<<data["message"]>>) ELSE <<>>)
    \o (IF "documentation_url" \in DOMAIN data
        THEN Printed(<<data["documentation_url"]>>) ELSE <<>>)

\* requests.get or resp.json raised (lines 100-101), or raise_for_status
\* does (line 107).
Raises(r) == r.kind = "exception" \/ ~r.ok

\* What get prints, given the response.
GetOutput(r) ==
  IF r.kind = "http" /\ ~r.ok THEN ErrorOutput(r.data) ELSE <<>>

\* An exception nothing catches ends the process with status 1.
Uncaught ==
  /\ pc' = "done"
  /\ exitCode' = 1

\* get(uri) with the response r: the request is sent, the response is
\* looked at, and the answer is remembered.
Get(uri, r) ==
  /\ requests' = Append(requests, Request(uri))
  /\ resp' = r
  /\ stdout' = stdout \o GetOutput(r)
  /\ remote' = IF Raises(r) THEN remote
               ELSE [remote EXCEPT ![uri] = <<r.data>>]

----------------------------------------------------------------------------
\* main(), lines 110-141

Init ==
  /\ args \in [t : {None} \cup Tokens,
               f : {None, DestPath},
               organization : {Organization},
               team : {None} \cup TeamArgs]
  /\ pc = "start"
  /\ exitCode = 0
  /\ resp = NoResponse
  /\ teams = <<>>
  /\ team = <<>>
  /\ members = <<>>
  /\ idx = 0
  /\ lines = <<>>
  /\ linePos = 0
  /\ requests = <<>>
  /\ stdout = <<>>
  /\ temp = NoFile
  /\ dest \in (IF args.f = None THEN {NoFile} ELSE PriorFiles)
  /\ remote = [u \in AllUris |-> <<>>]
  /\ run = 1
  /\ destAtStart = dest

\* FindTeam comparing the slug only.
RECURSIVE FindTeamSlugOnly(_, _)
FindTeamSlugOnly(ts, name) ==
  IF Len(ts) = 0 THEN <<>>
  ELSE IF name = ts[1].slug THEN <<ts[1]>>
  ELSE FindTeamSlugOnly(Tail(ts), name)

\* FindTeam with the assignment of line 115 outside the test: the last team
\* looked at stays in team.
RECURSIVE FindTeamLeaky(_, _)
FindTeamLeaky(ts, name) ==
  IF Len(ts) = 0 THEN <<>>
  ELSE IF name = ts[1].slug \/ name = ts[1].name \/ Len(ts) = 1 THEN <<ts[1]>>
  ELSE FindTeamLeaky(Tail(ts), name)

\* lines 112-116: the first team whose slug or name is the argument.
RECURSIVE FindTeam(_, _)
FindTeam(ts, name) ==
  IF Len(ts) = 0 THEN <<>>
  ELSE IF name = ts[1].slug \/ name = ts[1].name THEN <<ts[1]>>
  ELSE FindTeam(Tail(ts), name)

\* Extend leaving out a key that lines holds already.
RECURSIVE ExtendDedup(_, _)
ExtendDedup(ls, keys) ==
  IF Len(keys) = 0 THEN ls
  ELSE IF \E i \in 1..Len(ls) : ls[i] = keys[1].key
       THEN ExtendDedup(ls, Tail(keys))
       ELSE ExtendDedup(Append(ls, keys[1].key), Tail(keys))

\* lines 129-130: the keys of one user, appended to lines.
RECURSIVE Extend(_, _)
Extend(ls, keys) ==
  IF Len(keys) = 0 THEN ls
  ELSE Extend(Append(ls, keys[1].key), Tail(keys))

\* line 111: teams = get("/orgs/%s/teams" % args.organization)
GetTeams ==
  /\ pc = "start"
  /\ args.team # None
  /\ \E r \in Responses(TeamsUri(args.organization), remote) :
       /\ Get(TeamsUri(args.organization), r)
       /\ IF Raises(r)
          THEN Uncaught /\ UNCHANGED teams
          ELSE teams' = r.data /\ pc' = "scan" /\ UNCHANGED exitCode
  /\ UNCHANGED <<args, team, members, idx, lines, linePos, temp, dest, run,
                 destAtStart>>

\* lines 112-119: the scan of teams, and the exit when no team matches.
ScanTeams ==
  /\ pc = "scan"
  /\ team' = FindTeam(teams, args.team)
  /\ IF Len(team') = 0
     THEN /\ stdout' = stdout \o Printed(<<"Could not find team ", args.team>>)
          /\ pc' = "done"
          /\ exitCode' = 1
     ELSE /\ pc' = "team_members"
          /\ UNCHANGED <<stdout, exitCode>>
  /\ UNCHANGED <<args, resp, teams, members, idx, lines, linePos, requests,
                 temp, dest, remote, run, destAtStart>>

\* line 120: members = get("/teams/%s/members" % team['id'])
GetTeamMembers ==
  /\ pc = "team_members"
  /\ \E r \in Responses(TeamMembersUri(team[1].id), remote) :
       /\ Get(TeamMembersUri(team[1].id), r)
       /\ IF Raises(r)
          THEN Uncaught /\ UNCHANGED members
          ELSE members' = r.data /\ pc' = "loop" /\ UNCHANGED exitCode
  /\ UNCHANGED <<args, teams, team, idx, lines, linePos, temp, dest, run,
                 destAtStart>>

\* line 122: members = get("/orgs/%s/members" % args.organization)
GetOrgMembers ==
  /\ pc = "start"
  /\ args.team = None
  /\ \E r \in Responses(OrgMembersUri(args.organization), remote) :
       /\ Get(OrgMembersUri(args.organization), r)
       /\ IF Raises(r)
          THEN Uncaught /\ UNCHANGED members
          ELSE members' = r.data /\ pc' = "loop" /\ UNCHANGED exitCode
  /\ UNCHANGED <<args, teams, team, idx, lines, linePos, temp, dest, run,
                 destAtStart>>

\* lines 125-127: the next user, and the notice of it.
Notice ==
  /\ pc = "loop"
  /\ idx < Len(members)
  /\ stdout' = stdout \o Printed(<<"Getting key for ", members[idx + 1].login>>)
  /\ pc' = "getkeys"
  /\ UNCHANGED <<args, exitCode, resp, teams, team, members, idx, lines,
                 linePos, requests, temp, dest, remote, run, destAtStart>>

\* FetchKeys catching the failure of get: the member is skipped and the
\* loop goes on.
FetchKeysLenient ==
  /\ pc = "getkeys"
  /\ \E r \in Responses(KeysUri(members[idx + 1].login), remote) :
       /\ Get(KeysUri(members[idx + 1].login), r)
       /\ lines' = IF Raises(r) THEN lines ELSE Extend(lines, r.data)
  /\ idx' = idx + 1
  /\ pc' = "loop"
  /\ UNCHANGED <<args, exitCode, teams, team, members, linePos, temp, dest,
                 run, destAtStart>>

\* FetchKeys printing the keys of a member as soon as it has them.
FetchKeysStreaming ==
  /\ pc = "getkeys"
  /\ \E r \in Responses(KeysUri(members[idx + 1].login), remote) :
       /\ requests' = Append(requests, Request(KeysUri(members[idx + 1].login)))
       /\ resp' = r
       /\ remote' = IF Raises(r) THEN remote
                    ELSE [remote EXCEPT
                            ![KeysUri(members[idx + 1].login)] = <<r.data>>]
       /\ IF Raises(r)
          THEN /\ Uncaught
               /\ stdout' = stdout \o GetOutput(r)
               /\ UNCHANGED <<lines, idx>>
          ELSE /\ lines' = Extend(lines, r.data)
               /\ stdout' = stdout \o FileText(Extend(<<>>, r.data))
               /\ idx' = idx + 1
               /\ pc' = "loop"
               /\ UNCHANGED exitCode
  /\ UNCHANGED <<args, teams, team, members, linePos, temp, dest, run,
                 destAtStart>>

\* lines 128-130: keys = get("/users/%s/keys" % username), and the keys
\* appended to lines.
FetchKeys ==
  /\ pc = "getkeys"
  /\ \E r \in Responses(KeysUri(members[idx + 1].login), remote) :
       /\ Get(KeysUri(members[idx + 1].login), r)
       /\ IF Raises(r)
          THEN Uncaught /\ UNCHANGED <<lines, idx>>
          ELSE /\ lines' = Extend(lines, r.data)
               /\ idx' = idx + 1
               /\ pc' = "loop"
               /\ UNCHANGED exitCode
  /\ UNCHANGED <<args, teams, team, members, linePos, temp, dest, run,
                 destAtStart>>

\* lines 132-133: print(os.linesep.join(lines)), and the end of main.
EmitStdout ==
  /\ pc = "loop"
  /\ idx = Len(members)
  /\ args.f = None
  /\ stdout' = stdout \o Printed(Join(lines))
  /\ pc' = "done"
  /\ exitCode' = 0
  /\ UNCHANGED <<args, resp, teams, team, members, idx, lines, linePos,
                 requests, temp, dest, remote, run, destAtStart>>

\* lines 135-136: tempname = tempfile.mktemp(); open(tempname, 'w')
OpenTemp ==
  /\ pc = "loop"
  /\ idx = Len(members)
  /\ args.f # None
  /\ \E m \in CreateModes :
       temp' = [exists |-> TRUE, content |-> <<>>, mode |-> m]
  /\ linePos' = 0
  /\ pc' = "write"
  /\ UNCHANGED <<args, exitCode, resp, teams, team, members, idx, lines,
                 requests, stdout, dest, remote, run, destAtStart>>

\* lines 137-139: ofile.write(line); ofile.write(os.linesep)
WriteLine ==
  /\ pc = "write"
  /\ linePos < Len(lines)
  /\ temp' = [temp EXCEPT
                !.content = temp.content \o <<lines[linePos + 1], LineSep>>]
  /\ linePos' = linePos + 1
  /\ UNCHANGED <<args, pc, exitCode, resp, teams, team, members, idx, lines,
                 requests, stdout, dest, remote, run, destAtStart>>

\* line 140: the file is closed, and os.chmod(tempname, S_IRUSR | S_IWUSR)
Chmod ==
  /\ pc = "write"
  /\ linePos = Len(lines)
  /\ temp' = [temp EXCEPT !.mode = {"S_IRUSR"} \cup {"S_IWUSR"}]
  /\ pc' = "move"
  /\ UNCHANGED <<args, exitCode, resp, teams, team, members, idx, lines,
                 linePos, requests, stdout, dest, remote, run, destAtStart>>

\* MoveRename adding the keys to the file that is there.
MoveRenameAppend ==
  /\ pc = "move"
  /\ dest' = [exists |-> TRUE, content |-> dest.content \o temp.content,
              mode |-> temp.mode]
  /\ temp' = NoFile
  /\ pc' = "done"
  /\ exitCode' = 0
  /\ UNCHANGED <<args, resp, teams, team, members, idx, lines, linePos,
                 requests, stdout, remote, run, destAtStart>>

\* line 141: shutil.move(tempname, args.f), when os.rename succeeds.
MoveRename ==
  /\ pc = "move"
  /\ dest' = temp
  /\ temp' = NoFile
  /\ pc' = "done"
  /\ exitCode' = 0
  /\ UNCHANGED <<args, resp, teams, team, members, idx, lines, linePos,
                 requests, stdout, remote, run, destAtStart>>

\* line 141: shutil.move(tempname, args.f), when os.rename fails (args.f is
\* on another file system than the temporary directory): copy2 and unlink.
\* copyfile opens args.f for writing: an existing file is truncated and
\* keeps its mode, a new one gets the mode the umask leaves.
MoveCopyOpen ==
  /\ pc = "move"
  /\ \E m \in CreateModes :
       dest' = [exists |-> TRUE, content |-> <<>>,
                mode |-> IF dest.exists THEN dest.mode ELSE m]
  /\ pc' = "copydata"
  /\ UNCHANGED <<args, exitCode, resp, teams, team, members, idx, lines,
                 linePos, requests, stdout, temp, remote, run, destAtStart>>

\* copyfile writes the content.
MoveCopyData ==
  /\ pc = "copydata"
  /\ dest' = [dest EXCEPT !.content = temp.content]
  /\ pc' = "copystat"
  /\ UNCHANGED <<args, exitCode, resp, teams, team, members, idx, lines,
                 linePos, requests, stdout, temp, remote, run, destAtStart>>

\* copystat sets the mode.
MoveCopyStat ==
  /\ pc = "copystat"
  /\ dest' = [dest EXCEPT !.mode = temp.mode]
  /\ pc' = "unlink"
  /\ UNCHANGED <<args, exitCode, resp, teams, team, members, idx, lines,
                 linePos, requests, stdout, temp, remote, run, destAtStart>>

\* os.unlink(tempname), and the end of main.
MoveUnlink ==
  /\ pc = "unlink"
  /\ temp' = NoFile
  /\ pc' = "done"
  /\ exitCode' = 0
  /\ UNCHANGED <<args, resp, teams, team, members, idx, lines, linePos,
                 requests, stdout, dest, remote, run, destAtStart>>

\* The process is killed while it emits to the file (lines 135-141).
Interrupt ==
  /\ pc \in {"write", "move", "copydata", "copystat", "unlink"}
  /\ pc' = "killed"
  /\ UNCHANGED <<args, exitCode, resp, teams, team, members, idx, lines,
                 linePos, requests, stdout, temp, dest, remote, run,
                 destAtStart>>

\* After a run that wrote the file, the program is run again with the same
\* command line: a new process, the same file system, the same github.
Rerun ==
  /\ pc = "done"
  /\ exitCode = 0
  /\ args.f # None
  /\ run < MaxRuns
  /\ run' = run + 1
  /\ destAtStart' = dest
  /\ pc' = "start"
  /\ exitCode' = 0
  /\ resp' = NoResponse
  /\ teams' = <<>>
  /\ team' = <<>>
  /\ members' = <<>>
  /\ idx' = 0
  /\ lines' = <<>>
  /\ linePos' = 0
  /\ requests' = <<>>
  /\ stdout' = <<>>
  /\ UNCHANGED <<args, temp, dest, remote>>

Next ==
  \/ GetTeams
  \/ ScanTeams
  \/ GetTeamMembers
  \/ GetOrgMembers
  \/ Notice
  \/ FetchKeys
  \/ EmitStdout
  \/ OpenTemp
  \/ WriteLine
  \/ Chmod
  \/ MoveRename
  \/ MoveCopyOpen
  \/ MoveCopyData
  \/ MoveCopyStat
  \/ MoveUnlink
  \/ Interrupt

Spec == Init /\ [][Next]_vars

NextTwice == Next \/ Rerun

SpecTwice == Init /\ [][NextTwice]_vars

----------------------------------------------------------------------------
\* What the properties below speak of.

\* The lines of a text: the tokens between line separators.
RECURSIVE SplitFrom(_, _, _)
SplitFrom(toks, cur, acc) ==
  IF Len(toks) = 0 THEN (IF Len(cur) = 0 THEN acc ELSE Append(acc, cur))
  ELSE IF toks[1] = LineSep THEN SplitFrom(Tail(toks), <<>>, Append(acc, cur))
  ELSE SplitFrom(Tail(toks), Append(cur, toks[1]), acc)

SplitLines(text) == SplitFrom(text, <<>>, <<>>)

IsKeyLine(l) == Len(l) = 1 /\ l[1] \in KeyTexts
IsNoticeLine(l) == Len(l) = 2 /\ l[1] = "Getting key for "

\* The lines of a text that are keys, and those that are progress notices.
KeyLinesOf(text) == SelectSeq(SplitLines(text), IsKeyLine)
NoticeLinesOf(text) == SelectSeq(SplitLines(text), IsNoticeLine)

\* Each of ls as a line of its own.
AsLines(ls) == [i \in 1..Len(ls) |-> <<ls[i]>>]

\* What github answered on uri.
Answer(uri) == remote[uri][1]
Answered(uri) == Len(remote[uri]) > 0

\* The keys github holds for the members ms: member after member, and each
\* member's keys in the order of the response.
RECURSIVE KeysOfMembers(_)
KeysOfMembers(ms) ==
  IF Len(ms) = 0 THEN <<>>
  ELSE [i \in 1..Len(Answer(KeysUri(ms[1].login))) |->
          Answer(KeysUri(ms[1].login))[i].key]
         \o KeysOfMembers(Tail(ms))

\* The sum of the numbers of keys of the members ms.
RECURSIVE SumKeys(_)
SumKeys(ms) ==
  IF Len(ms) = 0 THEN 0
  ELSE Len(Answer(KeysUri(ms[1].login))) + SumKeys(Tail(ms))

\* The complete key file of this run.
CompleteFile ==
  [exists |-> TRUE, content |-> FileText(lines), mode |-> OwnerBits]

Succeeded == pc = "done" /\ exitCode = 0

\* Nothing of the keys has been written anywhere.
NoKeyOutput ==
  /\ Len(KeyLinesOf(stdout)) = 0
  /\ dest = destAtStart
  /\ temp = NoFile

\* The number of requests that resolve the members, and of those for keys.
ResolutionRequests == IF args.team = None THEN 1 ELSE 2
KeyRequests ==
  IF Len(requests) > ResolutionRequests
  THEN Len(requests) - ResolutionRequests ELSE 0

TeamMatches(t) == t.slug = args.team \/ t.name = args.team

----------------------------------------------------------------------------
\* C1: a run that succeeds emits the keys of the resolved members, member
\* after member and each member's keys in the order of the response: as many
\* key lines as the members have keys, none dropped, deduplicated or
\* reordered.
C1_AllKeysInOrder ==
  Succeeded =>
    /\ lines = KeysOfMembers(members)
    /\ Len(lines) = SumKeys(members)
    /\ IF args.f = None
       THEN KeyLinesOf(stdout) = AsLines(KeysOfMembers(members))
       ELSE SplitLines(dest.content) = AsLines(KeysOfMembers(members))

\* Two members, the first with two keys, and one key text under both.
C1_Witness ==
  /\ Succeeded
  /\ Len(members) = 2
  /\ Len(Answer(KeysUri(members[1].login))) = 2
  /\ Len(lines) = 3
  /\ lines[1] = lines[3]
  /\ lines[1] # lines[2]

\* C5: every request of a run carries the header Authorization: token
\* {token} when a token was given, and no Authorization header when none was.
C5_Authorization ==
  \A i \in 1..Len(requests) :
    IF args.t # None
    THEN /\ "Authorization" \in DOMAIN requests[i].headers
         /\ requests[i].headers["Authorization"] = <<"token ", args.t>>
    ELSE "Authorization" \notin DOMAIN requests[i].headers

\* A run with a token that has asked for the teams, for the members of a
\* team and for the keys of two users.
C5_Witness ==
  /\ args.t # None
  /\ Len(requests) = 4
  /\ requests[2].uri[1] = "teams"
  /\ requests[4].uri[1] = "users"

\* C7: the members asked for are those of the first team of the list whose
\* slug or whose name is the team argument, compared exactly; the request
\* carries the id of that team and of no other.
C7_FirstMatchingTeam ==
  /\ \A i \in 1..Len(requests) :
       requests[i].uri[1] = "teams" =>
         \E k \in 1..Len(teams) :
           /\ TeamMatches(teams[k])
           /\ \A j \in 1..(k - 1) : ~TeamMatches(teams[j])
           /\ requests[i].uri = <<"teams", Str(teams[k].id), "members">>
           /\ team = <<teams[k]>>
  /\ Cardinality({i \in 1..Len(requests) : requests[i].uri[1] = "teams"}) <= 1

\* Two teams match, the first by its name alone, and its members were asked
\* for.
C7_Witness ==
  /\ Len(requests) >= 2
  /\ requests[2].uri[1] = "teams"
  /\ Len(teams) = 2
  /\ TeamMatches(teams[1]) /\ TeamMatches(teams[2])
  /\ teams[1].slug # args.team
  /\ requests[2].uri[2] = Str(teams[1].id)

\* C2: with a team argument that is the slug or the name of no team of the
\* list, the run ends with exit status 1 after that one request: no members
\* and no keys are asked for, and no key is written to standard output or to
\* the file.
C2_TeamNotFound ==
  ( /\ args.team # None
    /\ Answered(TeamsUri(args.organization))
    /\ \A i \in 1..Len(Answer(TeamsUri(args.organization))) :
         ~TeamMatches(Answer(TeamsUri(args.organization))[i]) )
  => /\ pc \in {"scan", "done"}
     /\ pc = "done" => exitCode = 1
     /\ Len(requests) = 1
     /\ requests[1].uri = TeamsUri(args.organization)
     /\ NoKeyOutput

\* The run has ended on a list of two teams none of which matches.
C2_Witness ==
  /\ args.team # None
  /\ Answered(TeamsUri(args.organization))
  /\ Len(Answer(TeamsUri(args.organization))) = 2
  /\ \A i \in 1..2 : ~TeamMatches(Answer(TeamsUri(args.organization))[i])
  /\ pc = "done"
  /\ exitCode = 1
  /\ args.f # None

\* C6: when a request that resolves the members gets an error response whose
\* body has a message, that message is printed (and the documentation_url,
\* when the body has one), the run ends with an error, no further request is
\* sent and no key is written to standard output or to the file.
C6_ApiErrorSurfaced ==
  ( /\ resp.kind = "http"
    /\ ~resp.ok
    /\ "message" \in DOMAIN resp.data
    /\ Len(requests) <= ResolutionRequests )
  => /\ pc = "done"
     /\ exitCode = 1
     /\ SplitLines(stdout) =
          <<<<resp.data["message"]>>>>
            \o (IF "documentation_url" \in DOMAIN resp.data
                THEN <<<<resp.data["documentation_url"]>>>> ELSE <<>>)
     /\ requests[Len(requests)].uri[3] \in {"teams", "members"}
     /\ NoKeyOutput

\* The request for the members of a team got an error with both fields.
C6_Witness ==
  /\ resp.kind = "http"
  /\ ~resp.ok
  /\ DOMAIN resp.data = {"message", "documentation_url"}
  /\ Len(requests) = 2
  /\ requests[2].uri[1] = "teams"
  /\ pc = "done"

\* C8: a request that fails (for the teams, for the members, or for the
\* keys of a member at any place of the list) ends the run there: no later
\* member is asked for, no key collected so far is written to standard
\* output or to the file, the file is as it was, and the exit status is not 0.
C8_AbortOnFailure ==
  Raises(resp) =>
    /\ pc = "done"
    /\ exitCode # 0
    /\ NoKeyOutput
    /\ KeyRequests > 0 =>
         /\ KeyRequests = idx + 1
         /\ idx < Len(members)
         /\ requests[Len(requests)].uri = KeysUri(members[idx + 1].login)

\* The request for the keys of the second member failed, with keys of the
\* first collected and a file at the destination.
C8_Witness ==
  /\ Raises(resp)
  /\ KeyRequests = 2
  /\ Len(lines) > 0
  /\ args.f # None
  /\ dest.exists
  /\ pc = "done"

\* The uri of the i-th request of a run.
ExpectedUri(i) ==
  IF i > ResolutionRequests
  THEN KeysUri(members[i - ResolutionRequests].login)
  ELSE IF args.team = None THEN OrgMembersUri(args.organization)
  ELSE IF i = 1 THEN TeamsUri(args.organization)
  ELSE TeamMembersUri(team[1].id)

\* The notices of the first n members.
NoticesFor(n) == [i \in 1..n |-> <<"Getting key for ", members[i].login>>]

\* C9: the members are resolved first (one request without a team, two with
\* one); then the keys of each member are asked for, once and in the order
\* of the list, the notice of a member before its request; then the keys are
\* written once, to standard output or to the file.  No key is emitted
\* before the last keys request has returned.
C9_Sequential ==
  /\ KeyRequests <= Len(members)
  /\ \A i \in 1..Len(requests) : requests[i].uri = ExpectedUri(i)
  /\ NoticeLinesOf(stdout) = NoticesFor(Len(NoticeLinesOf(stdout)))
  /\ pc = "loop" =>
       KeyRequests = idx /\ Len(NoticeLinesOf(stdout)) = idx
  /\ pc = "getkeys" =>
       KeyRequests = idx /\ Len(NoticeLinesOf(stdout)) = idx + 1
  /\ (Len(KeyLinesOf(stdout)) > 0 \/ temp.exists \/ dest # destAtStart) =>
       /\ idx = Len(members)
       /\ KeyRequests = Len(members)
       /\ ~Raises(resp)
  /\ Succeeded =>
       /\ Len(requests) = ResolutionRequests + Len(members)
       /\ SplitLines(stdout) =
            NoticesFor(Len(members))
              \o (IF args.f # None THEN <<>>
                  ELSE IF Len(lines) = 0 THEN <<<<>>>>
                  ELSE AsLines(lines))
       /\ args.f # None => dest = CompleteFile

\* A run that made the requests of a team, two members and their keys and
\* printed the keys.
C9_Witness ==
  /\ Succeeded
  /\ args.f = None
  /\ Len(requests) = 4
  /\ Len(lines) >= 2
  /\ members[1].login = "bob"

\* C10: run again on the same answers of github, the program leaves the
\* file as the run before left it, content and mode 0600: the file that is
\* there is replaced, not added to, and the run does not fail on it.
C10_Idempotent ==
  (run >= 2 /\ Succeeded) =>
    /\ dest = destAtStart
    /\ dest.exists
    /\ dest.mode = OwnerBits
    /\ dest.content = FileText(KeysOfMembers(members))
    /\ temp = NoFile

\* The second run has written a file of two keys or more.
C10_Witness ==
  /\ run = 2
  /\ Succeeded
  /\ Len(dest.content) >= 4

\* C3: with -f, the destination holds at every moment what it held before
\* the run (or no file) or the complete key list with mode 0600, also when
\* the run is interrupted and when the move is not a single rename.
C3_DestNeverPartial ==
  args.f # None => (dest = destAtStart \/ dest = CompleteFile)

\* C4: without -f, the text a run writes to standard output is the keys it
\* collected, each on a line of its own, and nothing else (stated for the
\* runs that collected a key).
C4_StdoutOnlyKeys ==
  (Succeeded /\ args.f = None /\ Len(lines) > 0) =>
    SplitLines(stdout) = AsLines(lines)

====
